---------------------------- MODULE Spec2Model ----------------------------
(***************************************************************************)
(* Model of the Beancount income-statement MCP server (src/main.py): one   *)
(* inbound GET /income_statement request that fetches Fava's               *)
(* income_statement JSON, summarises it heuristically and answers.         *)
(*                                                                         *)
(* Python / JSON values are tagged records:                                *)
(*   None   [t |-> "null"]            (JSON null and dict.get's default)   *)
(*   bool   [t |-> "bool", b |-> TRUE]                                     *)
(*   number [t |-> "num",  n |-> 3]   (floats are modelled by integers)    *)
(*   str    [t |-> "str",  s |-> <<"4","2">>]  (a sequence of characters)  *)
(*   list   [t |-> "arr",  a |-> <<v1, v2>>]                               *)
(*   dict   [t |-> "obj",  o |-> [k \in Keys |-> v]]                       *)
(***************************************************************************)
EXTENDS Integers, Sequences, FiniteSets, TLC

VARIABLES
    pc,        \* position of the request inside explain_income_statement
    fava,      \* what the upstream does when it is called (requests.get)
    query,     \* the inbound query arguments of the request
    params,    \* the params dict built for the outbound GET
    calls,     \* the outbound GETs issued so far (their params), in order
    data,      \* the value returned by _http_get_income_statement
    summary,   \* the value returned by _summarize_income_statement
    response,  \* the response the inbound caller receives
    arg,       \* argument of a stand-alone _num call
    res        \* results of _num(arg) and of _num(_num(arg))

vars == <<pc, fava, query, params, calls, data, summary, response, arg, res>>

---------------------------------------------------------------------------
(* Python values *)

None == [t |-> "null"]
Bool(b) == [t |-> "bool", b |-> b]
Num(n) == [t |-> "num", n |-> n]
Str(s) == [t |-> "str", s |-> s]
Arr(a) == [t |-> "arr", a |-> a]
Obj(o) == [t |-> "obj", o |-> o]

EmptyDict == Obj([k \in {} |-> None])

\* bool(v): Python truth value of v
Truthy(v) ==
    CASE v.t = "null" -> FALSE
      [] v.t = "bool" -> v.b
      [] v.t = "num"  -> v.n # 0
      [] v.t = "str"  -> v.s # <<>>
      [] v.t = "arr"  -> v.a # <<>>
      [] v.t = "obj"  -> DOMAIN v.o # {}

\* a or b
Or(a, b) == IF Truthy(a) THEN a ELSE b

\* d.get(k) on a dict d
Get(d, k) == IF k \in DOMAIN d.o THEN d.o[k] ELSE None

\* k in d
HasKey(d, k) == k \in DOMAIN d.o

\* isinstance(v, dict), isinstance(v, list)
IsDict(v) == v.t = "obj"
IsList(v) == v.t = "arr"

---------------------------------------------------------------------------
(* float(x) and str(x) *)

Digits == <<"0", "1", "2", "3", "4", "5", "6", "7", "8", "9">>

IsDigit(c) == \E i \in 1..Len(Digits) : Digits[i] = c

DigitVal(c) == (CHOOSE i \in 1..Len(Digits) : Digits[i] = c) - 1

RECURSIVE DigitsValue(_)
DigitsValue(s) ==
    IF s = <<>> THEN 0
    ELSE 10 * DigitsValue(SubSeq(s, 1, Len(s) - 1)) + DigitVal(s[Len(s)])

RECURSIVE LStrip(_)
LStrip(s) == IF s # <<>> /\ s[1] = " " THEN LStrip(Tail(s)) ELSE s

RECURSIVE RStrip(_)
RStrip(s) ==
    IF s # <<>> /\ s[Len(s)] = " " THEN RStrip(SubSeq(s, 1, Len(s) - 1)) ELSE s

\* float(s) for a str s over the characters " ", "+", "-", digits and
\* letters: surrounding blanks are stripped, then an optional sign and one or
\* more digits are required.  None stands for the ValueError float raises.
FloatOfStr(s) ==
    LET body == RStrip(LStrip(s))
        signed == body # <<>> /\ body[1] \in {"+", "-"}
        digs == IF signed THEN Tail(body) ELSE body
        ok == digs # <<>> /\ \A i \in 1..Len(digs) : IsDigit(digs[i])
    IN  IF ~ok THEN None
        ELSE IF signed /\ body[1] = "-" THEN Num(0 - DigitsValue(digs))
        ELSE Num(DigitsValue(digs))

\* float(x); None stands for the exception (TypeError, ValueError) it raises
Float(x) ==
    CASE x.t = "num"  -> Num(x.n)
      [] x.t = "bool" -> Num(IF x.b THEN 1 ELSE 0)
      [] x.t = "str"  -> FloatOfStr(x.s)
      [] OTHER        -> None

\* def _num(x): try: return float(x) / except Exception: return None
_num(x) == Float(x)

RECURSIVE NatStr(_)
NatStr(n) ==
    IF n < 10 THEN <<Digits[n + 1]>>
    ELSE NatStr(n \div 10) \o <<Digits[(n % 10) + 1]>>

\* str(x) for the scalars a node name can be (str of a list or dict is not
\* modelled; no input of the model puts one under a name key)
PyStr(x) ==
    CASE x.t = "str"  -> x.s
      [] x.t = "num"  -> IF x.n < 0 THEN <<"-">> \o NatStr(0 - x.n) ELSE NatStr(x.n)
      [] x.t = "bool" -> IF x.b THEN <<"T", "r", "u", "e">> ELSE <<"F", "a", "l", "s", "e">>
      [] x.t = "null" -> <<"N", "o", "n", "e">>

---------------------------------------------------------------------------
(* _summarize_income_statement *)

\* the three fixed advisory strings
Notes ==
    << "Income is money in; expenses are money out (often negative).",
       "Net Profit ~ Income + Expenses (if expenses are negative, they reduce profit).",
       "Numbers are best-effort parsed; Fava's API may change between versions." >>

\* totals["income"], totals["expenses"], first step
TotalsIncome(d) ==
    IF IsDict(Get(d, "totals")) THEN _num(Get(Get(d, "totals"), "income")) ELSE None

TotalsExpenses(d) ==
    IF IsDict(Get(d, "totals")) THEN _num(Get(Get(d, "totals"), "expenses")) ELSE None

\* _num(totals.get("net") or totals.get("profit") or totals.get("net_profit"))
TotalsNet(d) ==
    IF IsDict(Get(d, "totals"))
    THEN LET t == Get(d, "totals")
         IN  _num(Or(Or(Get(t, "net"), Get(t, "profit")), Get(t, "net_profit")))
    ELSE None

\* _num(data.get("net_profit") or data.get("net") or data.get("profit"))
TopLevelNet(d) == _num(Or(Or(Get(d, "net_profit"), Get(d, "net")), Get(d, "profit")))

IncomeTotal(d) == IF TotalsIncome(d) = None THEN _num(Get(d, "income")) ELSE TotalsIncome(d)

ExpensesTotal(d) ==
    IF TotalsExpenses(d) = None THEN _num(Get(d, "expenses")) ELSE TotalsExpenses(d)

ExplicitNet(d) == IF TotalsNet(d) = None THEN TopLevelNet(d) ELSE TotalsNet(d)

\* DerivedNet with expenses taken as a positive amount to subtract
DerivedNet_Minus(income, expenses) == Num(income.n - expenses.n)

\* net_total = income_total + expenses_total
DerivedNet(income, expenses) == Num(income.n + expenses.n)

NetTotal(d) ==
    IF ExplicitNet(d) = None /\ IncomeTotal(d) # None /\ ExpensesTotal(d) # None
    THEN DerivedNet(IncomeTotal(d), ExpensesTotal(d))
    ELSE ExplicitNet(d)

\* val = _num(balance or amount or value or total)
NodeValue(node) ==
    _num(Or(Or(Or(Get(node, "balance"), Get(node, "amount")), Get(node, "value")),
            Get(node, "total")))

\* name = name or label or account or title
NodeName(node) ==
    Or(Or(Or(Get(node, "name"), Get(node, "label")), Get(node, "account")),
       Get(node, "title"))

\* ch = children or accounts or items
NodeChildren(node) == Or(Or(Get(node, "children"), Get(node, "accounts")), Get(node, "items"))

\* the entries cats.append adds for one dict node
NodeEntry(node) ==
    IF NodeName(node) # None /\ NodeValue(node) # None
    THEN << [name |-> PyStr(NodeName(node)), value |-> NodeValue(node).n] >>
    ELSE << >>

RECURSIVE collect_categories(_)
RECURSIVE CollectEach(_)

\* the entries appended to cats by collect_categories(node), in order
collect_categories(node) ==
    IF IsDict(node)
    THEN LET ch == NodeChildren(node)
         IN  NodeEntry(node) \o
             (IF IsList(ch) THEN CollectEach(ch.a)
              ELSE IF IsDict(ch) THEN collect_categories(ch)
              ELSE << >>)
    ELSE IF IsList(node) THEN CollectEach(node.a)
    ELSE << >>

\* for c in seq: collect_categories(c)
CollectEach(seq) ==
    IF seq = << >> THEN << >>
    ELSE collect_categories(Head(seq)) \o CollectEach(Tail(seq))

RECURSIVE VisitedNodes(_)
RECURSIVE VisitedEach(_)

\* the dict nodes collect_categories(node) is called on, in order
VisitedNodes(node) ==
    IF IsDict(node)
    THEN LET ch == NodeChildren(node)
         IN  <<node>> \o
             (IF IsList(ch) THEN VisitedEach(ch.a)
              ELSE IF IsDict(ch) THEN VisitedNodes(ch)
              ELSE << >>)
    ELSE IF IsList(node) THEN VisitedEach(node.a)
    ELSE << >>

VisitedEach(seq) ==
    IF seq = << >> THEN << >>
    ELSE VisitedNodes(Head(seq)) \o VisitedEach(Tail(seq))

TopKeys == << "children", "accounts", "items", "tree", "data" >>

RECURSIVE VisitedKeys(_, _)
\* the dict nodes visited by the walk over the top-level keys of d
VisitedKeys(d, keys) ==
    IF keys = << >> THEN << >>
    ELSE (IF HasKey(d, Head(keys)) THEN VisitedNodes(d.o[Head(keys)]) ELSE << >>)
         \o VisitedKeys(d, Tail(keys))

RECURSIVE CollectKeys(_, _)
\* for key in keys: if key in data: collect_categories(data[key])
CollectKeys(d, keys) ==
    IF keys = << >> THEN << >>
    ELSE (IF HasKey(d, Head(keys)) THEN collect_categories(d.o[Head(keys)]) ELSE << >>)
         \o CollectKeys(d, Tail(keys))

Cats(d) == CollectKeys(d, TopKeys)

Abs(n) == IF n < 0 THEN 0 - n ELSE n

Reverse(s) == [i \in 1..Len(s) |-> s[Len(s) + 1 - i]]

\* s with the elements satisfying the test kept, in order
SelectPos(s) == SelectSeq(s, LAMBDA c : c.value > 0)
SelectNeg(s) == SelectSeq(s, LAMBDA c : c.value < 0)

\* InsertAsc putting x in front of the elements of equal key
InsertAsc_Unstable(s, x) ==
    LET p == Cardinality({i \in 1..Len(s) : s[i].k < x.k})
    IN  SubSeq(s, 1, p) \o <<x>> \o SubSeq(s, p + 1, Len(s))

\* x put into the ascending sequence s behind every element whose key is
\* not larger (a stable insertion)
InsertAsc(s, x) ==
    LET p == Cardinality({i \in 1..Len(s) : s[i].k <= x.k})
    IN  SubSeq(s, 1, p) \o <<x>> \o SubSeq(s, p + 1, Len(s))

RECURSIVE StableSortAsc(_)
StableSortAsc(s) ==
    IF s = << >> THEN << >>
    ELSE InsertAsc(StableSortAsc(SubSeq(s, 1, Len(s) - 1)), s[Len(s)])

\* sorted(s, key=..., reverse=True) on key-decorated elements: the list is
\* reversed, sorted stably ascending, and reversed again
SortedReverse(s) == Reverse(StableSortAsc(Reverse(s)))

TopN == 5

\* s[:TopN]
Slice(s) == SubSeq(s, 1, IF Len(s) < TopN THEN Len(s) ELSE TopN)

Undecorate(s) == [i \in 1..Len(s) |-> s[i].e]

\* sorted([c for c in cats if c["value"] > 0], key=value, reverse=True)[:5]
TopIncome(cats) ==
    LET sel == SelectPos(cats)
    IN  Slice(Undecorate(SortedReverse([i \in 1..Len(sel) |-> [k |-> sel[i].value, e |-> sel[i]]])))

\* sorted([c for c in cats if c["value"] < 0], key=abs(value), reverse=True)[:5]
TopExpenses(cats) ==
    LET sel == SelectNeg(cats)
    IN  Slice(Undecorate(SortedReverse([i \in 1..Len(sel) |-> [k |-> Abs(sel[i].value), e |-> sel[i]]])))

\* what _summarize_income_statement(d) does: it returns a summary, or the
\* AttributeError of d.get escapes when d is not a dict
_summarize_income_statement(d) ==
    IF ~IsDict(d) THEN [raised |-> "AttributeError"]
    ELSE [ notes        |-> Notes,
           totals       |-> [income     |-> IncomeTotal(d),
                             expenses   |-> ExpensesTotal(d),
                             net_profit |-> NetTotal(d)],
           top_income   |-> IF Cats(d) # << >> THEN TopIncome(Cats(d)) ELSE << >>,
           top_expenses |-> IF Cats(d) # << >> THEN TopExpenses(Cats(d)) ELSE << >> ]

Raised(r) == "raised" \in DOMAIN r

---------------------------------------------------------------------------
(* _http_get_income_statement and explain_income_statement *)

FAVA_INCOME_API == "http://127.0.0.1:5000/example-beancount-file/api/income_statement"

Timeout == 15

\* requests.get(FAVA_INCOME_API, params=params, timeout=15)
GetCall(p) == [url |-> FAVA_INCOME_API, params |-> p, timeout |-> Timeout]

ParamKeys == {"time", "interval", "conversion", "filter"}

\* params = {}; if time: params["time"] = time; ... (falsy arguments are left out)
BuildParams(q) == [k \in {p \in ParamKeys : Truthy(q[p])} |-> q[k]]

\* StatusError with every upstream status folded into the gateway status
StatusError_Gateway(status) ==
    [status |-> 502, detail |-> <<"Fava returned ">> \o NatStr(status)]

\* HTTPException(status_code=resp.status_code, detail=f"Fava returned {resp.status_code}")
StatusError(status) ==
    [status |-> status, detail |-> <<"Fava returned ">> \o NatStr(status)]

\* TransportError without the cause text
TransportError_NoCause(cause) ==
    [status |-> 502, detail |-> <<"Failed to reach Fava: ">>]

\* HTTPException(status_code=502, detail=f"Failed to reach Fava: {str(e)}")
TransportError(cause) ==
    [status |-> 502, detail |-> <<"Failed to reach Fava: ", cause>>]

\* what the caller receives when an exception other than HTTPException
\* escapes the handler
ServerError(exc) == [status |-> 500, unhandled |-> exc]

\* Result with the raw body attached whatever return_raw says
Result_AlwaysRaw(d, s, return_raw) ==
    [source |-> FAVA_INCOME_API, summary |-> s, raw |-> d]

\* result = {"source": ..., "summary": summary}; if return_raw: result["raw"] = data
Result(d, s, return_raw) ==
    IF return_raw
    THEN [source |-> FAVA_INCOME_API, summary |-> s, raw |-> d]
    ELSE [source |-> FAVA_INCOME_API, summary |-> s]

NoData == [t |-> "unset"]
NoSummary == [pending |-> TRUE]
NoResponse == [status |-> 0]

\* the handler is entered with query arguments q and builds params
Call(q) ==
    /\ pc = "idle"
    /\ query' = q
    /\ params' = BuildParams(q)
    /\ pc' = "called"
    /\ UNCHANGED <<fava, calls, data, summary, response, arg, res>>

\* data = _http_get_income_statement(params): one requests.get, then the
\* outcome is classified
HttpGet ==
    /\ pc = "called"
    /\ calls' = Append(calls, GetCall(params))
    /\ IF fava.kind = "exception"
       THEN /\ response' = TransportError(fava.cause)
            /\ pc' = "done"
            /\ data' = data
       ELSE IF fava.status # 200
       THEN /\ response' = StatusError(fava.status)
            /\ pc' = "done"
            /\ data' = data
       ELSE /\ data' = fava.body
            /\ pc' = "fetched"
            /\ response' = response
    /\ UNCHANGED <<fava, query, params, summary, arg, res>>

\* summary = _summarize_income_statement(data)
Summarize ==
    /\ pc = "fetched"
    /\ IF Raised(_summarize_income_statement(data))
       THEN /\ response' = ServerError(_summarize_income_statement(data).raised)
            /\ pc' = "done"
            /\ summary' = summary
       ELSE /\ summary' = _summarize_income_statement(data)
            /\ pc' = "summarized"
            /\ response' = response
    /\ UNCHANGED <<fava, query, params, calls, data, arg, res>>

\* return result
Respond ==
    /\ pc = "summarized"
    /\ response' = [status |-> 200, body |-> Result(data, summary, query.return_raw)]
    /\ pc' = "done"
    /\ UNCHANGED <<fava, query, params, calls, data, summary, arg, res>>

\* a stand-alone call _num(arg), and _num applied to its result
Coerce ==
    /\ pc = "num"
    /\ res' = <<_num(arg)>>
    /\ pc' = "coerced"
    /\ UNCHANGED <<fava, query, params, calls, data, summary, response, arg>>

CoerceAgain ==
    /\ pc = "coerced"
    /\ res' = Append(res, _num(res[1]))
    /\ pc' = "recoerced"
    /\ UNCHANGED <<fava, query, params, calls, data, summary, response, arg>>

---------------------------------------------------------------------------
(* Inputs *)

\* query arguments of the inbound request
Queries ==
    [ time       : {None, Str(<<>>), Str(<<"2", "0", "2", "4">>)},
      interval   : {None, Str(<<"m", "o", "n", "t", "h">>)},
      conversion : {None, Str(<<"U", "S", "D">>)},
      filter     : {None, Str(<<"t", "a", "g", ":", "x">>)},
      return_raw : BOOLEAN ]

DefaultQuery ==
    [time |-> None, interval |-> None, conversion |-> None, filter |-> None,
     return_raw |-> TRUE]

\* str(e) of the transport exceptions (RequestException, Timeout,
\* ConnectionError)
Causes == {"Connection failed", "Request timed out", "Connection refused",
           "Name or service not known"}

Statuses == {200, 201, 302, 400, 404, 500, 502, 503}

Entry(name, key, n) == Obj((("name" :> Str(<<name>>)) @@ (key :> Num(n))))

\* the bodies of the test-suite, and every top-level JSON type
BasicBody ==
    Obj([totals   |-> Obj([income |-> Num(10000), expenses |-> Num(-7500), net |-> Num(2500)]),
         children |-> Arr(<<Entry("S", "balance", 10000), Entry("R", "balance", -2000),
                            Entry("F", "balance", -1500)>>)])

AlternativeBody ==
    Obj([income |-> Num(8000), expenses |-> Num(-6000), net_profit |-> Num(2000),
         accounts |-> Arr(<<Entry("I", "amount", 8000), Entry("U", "amount", -2000),
                            Entry("N", "amount", -4000)>>)])

MalformedBody ==
    Obj([some_unexpected_field |-> Str(<<"v">>),
         nested |-> Obj([complex |-> Obj([structure |-> Str(<<"x">>)])])])

ShapeBodies ==
    { None, Bool(TRUE), Bool(FALSE), Num(0), Num(7), Str(<<>>), Str(<<"o", "k">>),
      Arr(<<>>), Arr(<<Entry("A", "balance", 1)>>), Arr(<<Num(1), None>>),
      EmptyDict, BasicBody, AlternativeBody, MalformedBody,
      Obj([totals |-> Obj([income |-> Num(5000), expenses |-> Num(-3000)])]),
      Obj([totals |-> Arr(<<>>), children |-> Num(3), data |-> Str(<<"x">>)]) }

\* what requests.get does: it raises a RequestException, or returns a
\* response with a status and a JSON-decodable body
FavaBehaviours ==
    { [kind |-> "exception", cause |-> c] : c \in Causes }
    \cup { [kind |-> "response", status |-> 200, body |-> b] : b \in ShapeBodies }
    \cup { [kind |-> "response", status |-> s, body |-> b] :
             s \in Statuses \ {200}, b \in {EmptyDict, BasicBody} }

Idle ==
    /\ query = DefaultQuery
    /\ params = BuildParams(DefaultQuery)
    /\ calls = << >>
    /\ data = NoData
    /\ summary = NoSummary
    /\ response = NoResponse

\* a request is about to be made; the upstream will behave as fava says
Init ==
    /\ pc = "idle"
    /\ fava \in FavaBehaviours
    /\ Idle
    /\ arg = None
    /\ res = << >>

Next ==
    \/ \E q \in Queries : Call(q)
    \/ HttpGet
    \/ Summarize
    \/ Respond

Spec == Init /\ [][Next]_vars

---------------------------------------------------------------------------
(* Properties of the request, checked under Spec *)

UpstreamOk == fava.kind = "response" /\ fava.status = 200
UpstreamStatus == fava.kind = "response" /\ fava.status # 200
UpstreamDown == fava.kind = "exception"

SummaryKeys == {"notes", "totals", "top_income", "top_expenses"}

IsSuccess(r) == r.status = 200 /\ "body" \in DOMAIN r
IsPropagated(r) == UpstreamStatus /\ r = [status |-> fava.status,
                                          detail |-> <<"Fava returned ">> \o NatStr(fava.status)]
IsGateway(r) ==
    /\ r.status = 502
    /\ "detail" \in DOMAIN r
    /\ Len(r.detail) = 2
    /\ r.detail[1] = "Failed to reach Fava: "

\* C1: the Summarizer is total: whatever JSON value the upstream returns with
\* status 200 (an object, but also an array, string, number, boolean or
\* null), summarization ends with a Summary that has totals, top_income,
\* top_expenses and notes, and never with an error.
C1_SummarizerTotal ==
    (UpstreamOk /\ pc = "done")
        => /\ DOMAIN summary = SummaryKeys
           /\ "unhandled" \notin DOMAIN response

\* C2: for every upstream status s other than 200 the request ends with
\* response status s and the message "Fava returned s"; no Summary is ever
\* computed and no source/summary/raw body is returned.
C2_StatusPropagated ==
    UpstreamStatus =>
        /\ pc \in {"idle", "called", "done"}
        /\ summary = NoSummary
        /\ data = NoData
        /\ pc = "done" =>
              /\ response.status = fava.status
              /\ DOMAIN response = {"status", "detail"}
              /\ response.detail = <<"Fava returned ">> \o NatStr(fava.status)

C2_Witness ==
    /\ pc = "done"
    /\ UpstreamStatus
    /\ fava.status = 503
    /\ response.status = 503
    /\ response.detail = <<"Fava returned ", "5", "0", "3">>

\* C3: for every transport-level failure of the outbound GET the response
\* status is 502, and its message is "Failed to reach Fava" followed by the
\* cause text of the failure.
C3_TransportIs502 ==
    UpstreamDown =>
        /\ pc \in {"idle", "called", "done"}
        /\ summary = NoSummary
        /\ pc = "done" =>
              /\ response.status = 502
              /\ DOMAIN response = {"status", "detail"}
              /\ response.detail = <<"Failed to reach Fava: ", fava.cause>>

C3_Witness ==
    /\ pc = "done"
    /\ UpstreamDown
    /\ fava.cause = "Request timed out"
    /\ response = [status |-> 502,
                   detail |-> <<"Failed to reach Fava: ", "Request timed out">>]

\* exactly one outbound GET per request, issued before summarization
SingleGet ==
    /\ Len(calls) <= 1
    /\ pc \in {"fetched", "summarized", "done"} => Len(calls) = 1
    /\ summary # NoSummary => Len(calls) = 1
    /\ response # NoResponse <=> pc = "done"

\* C8: in every execution of the request exactly one outbound GET is issued,
\* before any summarization, and the request ends with exactly one response,
\* which is a success, the propagated upstream status, or 502.
C8_SingleAttempt ==
    /\ SingleGet
    /\ pc = "done" =>
          \/ IsSuccess(response)
          \/ IsPropagated(response)
          \/ IsGateway(response)

\* C9: on every successful request the body holds the key raw exactly when
\* return_raw is true; raw, when present, is the upstream JSON; source and
\* summary are present either way.
C9_RawIffRequested ==
    (pc = "done" /\ IsSuccess(response)) =>
        /\ ("raw" \in DOMAIN response.body) <=> query.return_raw
        /\ "raw" \in DOMAIN response.body => response.body.raw = fava.body
        /\ {"source", "summary"} \subseteq DOMAIN response.body
        /\ response.body.summary = summary
        /\ response.body.source = FAVA_INCOME_API

C9_Witness ==
    /\ pc = "done"
    /\ IsSuccess(response)
    /\ ~query.return_raw
    /\ fava.body = BasicBody
    /\ DOMAIN response.body = {"source", "summary"}
    /\ response.body.summary.totals.net_profit = Num(2500)

---------------------------------------------------------------------------
(* The summarizer on families of upstream bodies.  Each specification starts *)
(* in the state a request with default arguments is in once the upstream    *)
(* has answered 200 with the body, and applies _summarize_income_statement. *)

Fetched(b) ==
    /\ pc = "fetched"
    /\ fava = [kind |-> "response", status |-> 200, body |-> b]
    /\ query = DefaultQuery
    /\ params = BuildParams(DefaultQuery)
    /\ calls = << GetCall(BuildParams(DefaultQuery)) >>
    /\ data = b
    /\ summary = NoSummary
    /\ response = NoResponse
    /\ arg = None
    /\ res = << >>

MaxFields == 3
MaxCats == 6
MaxStrLen == 2
NumRange == 99

Absent == [t |-> "absent"]

\* the dict holding key keys[i] with value f[i] for every i where f[i] is
\* not Absent
DictOf(keys, f) ==
    [k \in {keys[i] : i \in {j \in DOMAIN f : f[j] # Absent}} |->
        f[CHOOSE i \in DOMAIN f : keys[i] = k]]

TotalKeys == <<"income", "expenses", "net", "profit", "net_profit">>

TotalValues == {None, Num(0), Num(-2), Num(5), Str(<<"0">>), Str(<<"a">>)}

\* the ways to fill the total keys with at most n values
Fillings(n) ==
    UNION { [S -> TotalValues] : S \in {T \in SUBSET (1..Len(TotalKeys)) : Cardinality(T) <= n} }

Filled(f) == [i \in 1..Len(TotalKeys) |-> IF i \in DOMAIN f THEN f[i] ELSE Absent]

\* what the key totals holds when it is not a mapping
NonMappings == {None, Num(5), Arr(<<Num(1)>>)}

\* bodies with at most MaxFields fields in all, at top level and inside a
\* totals mapping, and bodies whose totals is absent or not a mapping
InitTotals ==
    \/ \E top \in Fillings(MaxFields) :
          Fetched(Obj(DictOf(TotalKeys, Filled(top))))
    \/ \E top \in Fillings(MaxFields) :
          \E t \in Fillings(MaxFields - Cardinality(DOMAIN top)) :
             Fetched(Obj(DictOf(TotalKeys, Filled(top))
                         @@ [totals |-> Obj(DictOf(TotalKeys, Filled(t)))]))
    \/ \E top \in Fillings(MaxFields - 1) :
          \E x \in NonMappings :
             Fetched(Obj(DictOf(TotalKeys, Filled(top)) @@ [totals |-> x]))

SpecTotals == InitTotals /\ [][Summarize]_vars

Letters == <<"A", "B", "C", "D", "E", "F", "G", "H", "I", "J">>

RankValues == {-2, -1, 0, 1, 2}

\* {"children": [{"name": "A", "balance": v[1]}, {"name": "B", "balance": v[2]}, ...]}
RankBody(v) ==
    Obj([children |-> Arr([i \in DOMAIN v |->
                              Obj([name |-> Str(<<Letters[i]>>), balance |-> Num(v[i])])])])

ValueKeys == <<"balance", "amount", "value", "total">>
NameKeys == <<"name", "label", "account", "title">>

LookupValues == {Absent, None, Num(0), Num(4), Num(-3), Str(<<"0">>), Str(<<"x">>)}

NameValues == {Absent, None, Str(<<>>), Str(<<"A">>), Num(0)}

\* a node placed in a list under a top-level key, directly under a top-level
\* key, in the child list of a parent, and as the dict child of a dict
Placement(p, node) ==
    CASE p = 1 -> Obj([children |-> Arr(<<node>>)])
      [] p = 2 -> Obj([data |-> node])
      [] p = 3 -> Obj([accounts |-> Arr(<<Obj([name |-> Str(<<"P">>), balance |-> Num(1),
                                               items |-> Arr(<<Num(7), node>>)])>>),
                       tree |-> Arr(<<Obj([name |-> Str(<<"Q">>), total |-> Num(-1)])>>)])
      [] p = 4 -> Obj([tree |-> Obj([children |-> Arr(<<>>), accounts |-> node])])

\* lists of up to MaxCats named balances; one node named "A" with any value
\* keys, in each placement; one node of balance 4 with any name keys
InitCats ==
    \/ \E n \in 0..MaxCats : \E v \in [1..n -> RankValues] : Fetched(RankBody(v))
    \/ \E f \in [1..Len(ValueKeys) -> LookupValues] : \E p \in 1..4 :
          Fetched(Placement(p, Obj([name |-> Str(<<"A">>)] @@ DictOf(ValueKeys, f))))
    \/ \E g \in [1..Len(NameKeys) -> NameValues] :
          Fetched(Obj([items |-> Arr(<<Obj([balance |-> Num(4)] @@ DictOf(NameKeys, g))>>)]))

SpecCats == InitCats /\ [][Summarize]_vars

Alphabet == {" ", "-", "+", "0", "1", "9", "a"}

Strings == UNION { [1..k -> Alphabet] : k \in 0..MaxStrLen }

\* the arguments of _num: null (also what a missing key gives), booleans,
\* numbers, strings, lists and dicts
NumArgs ==
    {None, Bool(TRUE), Bool(FALSE)}
    \cup { Num(n) : n \in (0 - NumRange)..NumRange }
    \cup { Str(str) : str \in Strings }
    \cup { Arr(<<>>), Arr(<<Num(1)>>), EmptyDict, Obj([balance |-> Num(1)]) }

InitNum ==
    /\ pc = "num"
    /\ fava \in { [kind |-> "exception", cause |-> "Connection refused"] }
    /\ Idle
    /\ arg \in NumArgs
    /\ res = << >>

NextNum == Coerce \/ CoerceAgain

SpecNum == InitNum /\ [][NextNum]_vars

---------------------------------------------------------------------------
(* Properties of the totals, checked under SpecTotals *)

\* the value d holds at the first of keys that is present in d
FirstPresent(d, keys) ==
    LET here == {i \in 1..Len(keys) : keys[i] \in DOMAIN d.o}
    IN  IF here = {} THEN Absent
        ELSE d.o[keys[CHOOSE i \in here : \A j \in here : i <= j]]

TotalsNetKeys == <<"net", "profit", "net_profit">>
TopNetKeys == <<"net_profit", "net", "profit">>

\* the first present net field of the totals mapping, if there is one
TotalsNetField(d) ==
    IF HasKey(d, "totals") /\ IsDict(d.o["totals"])
    THEN FirstPresent(d.o["totals"], TotalsNetKeys)
    ELSE Absent

\* the explicit numeric net figure of d: the first present net field of the
\* totals mapping or, when the totals mapping has none, the first present
\* top-level net field
ExplicitNumericNet(d) ==
    IF TotalsNetField(d).t = "num" THEN TotalsNetField(d)
    ELSE IF TotalsNetField(d) = Absent /\ FirstPresent(d, TopNetKeys).t = "num"
    THEN FirstPresent(d, TopNetKeys)
    ELSE Absent

\* C4: whenever the body carries an explicit numeric net figure (negative,
\* zero or positive), the Summary's net_profit is that figure, also when it
\* differs from income + expenses.
C4_ExplicitNetWins ==
    (pc = "summarized" /\ ExplicitNumericNet(data) # Absent)
        => summary.totals.net_profit = ExplicitNumericNet(data)

\* the explicit figure does win whenever it is not zero
ExplicitNonZeroNetWins ==
    (pc = "summarized" /\ ExplicitNumericNet(data) # Absent /\ ExplicitNumericNet(data).n # 0)
        => summary.totals.net_profit = ExplicitNumericNet(data)

\* no net field anywhere: none at top level, none in a totals mapping
NoNetField(d) ==
    /\ FirstPresent(d, TopNetKeys) = Absent
    /\ TotalsNetField(d) = Absent

---------------------------------------------------------------------------
(* Properties of the category lists, checked under SpecCats *)

\* position of entry i among the entries of c taken by the test keep and
\* ordered by descending key, equal keys in order of encounter
RankOf(c, i, keep(_), key(_)) ==
    1 + Cardinality({j \in 1..Len(c) :
                       /\ keep(c[j])
                       /\ \/ key(c[j]) > key(c[i])
                          \/ key(c[j]) = key(c[i]) /\ j < i})

\* the first 5 (or all, if fewer) of the kept entries of c in rank order
Ranked(c, keep(_), key(_)) ==
    LET kept == {i \in 1..Len(c) : keep(c[i])}
        len == IF Cardinality(kept) < 5 THEN Cardinality(kept) ELSE 5
    IN  [r \in 1..len |-> c[CHOOSE i \in kept : RankOf(c, i, keep, key) = r]]

\* C5: top_income is the first 5 (or all) of the collected entries of value
\* > 0 by descending value, top_expenses the first 5 (or all) of those of
\* value < 0 by descending absolute value, equal ranks in order of first
\* encounter; no entry of value 0 is in either list.
C5_Ranking ==
    pc = "summarized" =>
        /\ summary.top_income
             = Ranked(Cats(data), LAMBDA e : e.value > 0, LAMBDA e : e.value)
        /\ summary.top_expenses
             = Ranked(Cats(data), LAMBDA e : e.value < 0, LAMBDA e : 0 - e.value)
        /\ \A i \in 1..Len(summary.top_income) : summary.top_income[i].value # 0
        /\ \A i \in 1..Len(summary.top_expenses) : summary.top_expenses[i].value # 0

\* six positive entries with ties: the list is cut to five and A precedes C
C5_Witness ==
    /\ pc = "summarized"
    /\ Len(Cats(data)) = 6
    /\ \A i \in 1..6 : Cats(data)[i].value = IF i \in {2, 4} THEN 2 ELSE 1
    /\ Len(summary.top_income) = 5
    /\ summary.top_income[1].name = <<"B">>
    /\ summary.top_income[2].name = <<"D">>
    /\ summary.top_income[3].name = <<"A">>
    /\ summary.top_income[4].name = <<"C">>
    /\ summary.top_income[5].name = <<"E">>

InList(list, name, n) == \E k \in 1..Len(list) : list[k] = [name |-> name, value |-> n]
Named(list, name) == \E k \in 1..Len(list) : list[k].name = name

\* the value d holds at the first of keys that is present in d with a value
\* other than null
FirstNonNull(d, keys) ==
    LET here == {i \in 1..Len(keys) : keys[i] \in DOMAIN d.o /\ d.o[keys[i]] # None}
    IN  IF here = {} THEN Absent
        ELSE d.o[keys[CHOOSE i \in here : \A j \in here : i <= j]]

\* the value the claim gives a node: the Numeric Coercion of what the first
\* present of balance, amount, value, total holds (a key holding null is
\* taken as not present)
FirstPresentValue(node) ==
    IF FirstNonNull(node, ValueKeys) = Absent THEN None
    ELSE _num(FirstNonNull(node, ValueKeys))

\* C10: the value of every dict node visited by the category walk is the
\* Numeric Coercion of the first present of balance, amount, value, total,
\* whatever that key holds, and later keys are not consulted: a named node
\* is listed with that value under top_income when it is > 0 and under
\* top_expenses when it is < 0 (unless five entries rank before it), and a
\* node whose first present key holds 0, or nothing numeric, is in neither
\* list.  (The names of the nodes of one body are distinct.)
C10_FirstPresentValue ==
    pc = "summarized" =>
        \A i \in 1..Len(VisitedKeys(data, TopKeys)) :
            LET node == VisitedKeys(data, TopKeys)[i]
                v == FirstPresentValue(node)
                name == PyStr(NodeName(node))
            IN  NodeName(node) # None =>
                  /\ (v # None /\ v.n > 0) =>
                        \/ InList(summary.top_income, name, v.n)
                        \/ Len(summary.top_income) = 5 /\ ~Named(summary.top_income, name)
                  /\ (v # None /\ v.n < 0) =>
                        \/ InList(summary.top_expenses, name, v.n)
                        \/ Len(summary.top_expenses) = 5 /\ ~Named(summary.top_expenses, name)
                  /\ (v # None /\ v.n >= 0) => ~Named(summary.top_expenses, name)
                  /\ (v # None /\ v.n <= 0) => ~Named(summary.top_income, name)
                  /\ v = None =>
                        ~Named(summary.top_income, name) /\ ~Named(summary.top_expenses, name)

\* the value of a node is the coercion of the first value key that holds
\* a truthy value
FirstTruthyValue ==
    pc = "summarized" =>
        \A i \in 1..Len(VisitedKeys(data, TopKeys)) :
            LET node == VisitedKeys(data, TopKeys)[i]
                first == FirstNonNull(node, ValueKeys)
            IN  (first # Absent /\ Truthy(first)) => NodeValue(node) = _num(first)

---------------------------------------------------------------------------
(* Properties of _num, checked under SpecNum *)

HasDigit(str) == \E i \in 1..Len(str) : IsDigit(str[i])

\* C7: _num never raises; a number keeps its value; the decimal text of a
\* number yields that number; null, booleans, strings without a digit,
\* lists and dicts yield None; coercing the result again changes nothing.
C7_NumTotalIdempotent ==
    /\ pc \in {"coerced", "recoerced"} =>
          /\ res[1].t \in {"num", "null"}
          /\ arg.t = "num" => res[1] = arg
          /\ arg.t \in {"null", "bool", "arr", "obj"} => res[1] = None
          /\ (arg.t = "str" /\ ~HasDigit(arg.s)) => res[1] = None
          /\ \A n \in (0 - NumRange)..NumRange :
                arg = Str(PyStr(Num(n))) => res[1] = Num(n)
    /\ pc = "recoerced" => res[2] = res[1]

\* C7 holds of every argument that is not a boolean
NumTotalIdempotentButBool ==
    arg.t # "bool" => C7_NumTotalIdempotent

===========================================================================
